---- MODULE Spec2Model ----
(***************************************************************************)
(* ChannelQueryHandler of lnd-mcp-server (src/src/core/config/index.ts,    *)
(* lines 205-598): handleQuery, getChannelData, fetchRawChannelData,       *)
(* enrichChannelsWithMetadata, addNodeAliases and calculateChannelSummary. *)
(*                                                                         *)
(* An Error object is modelled by the record [message |-> m].  A JS number *)
(* that is a quotient of two integers is modelled by the exact fraction    *)
(* [num, den]; den = 0 stands for the JS results of a division by zero:    *)
(* 0/0 is NaN, n/0 (n > 0) is Infinity.  Comparing such a quotient with a  *)
(* bound that is itself a correctly rounded quotient (0.1, 0.9) compares   *)
(* the fractions: division is correctly rounded and rounding is monotone.  *)
(* The imbalance ratio Math.abs(0.5 - local_balance / capacity) goes       *)
(* through two roundings, and is modelled as the IEEE-754 double the code  *)
(* computes: the exact fraction plus its rounding error (see Double).      *)
(* Capacities and balances are below 2^14, so that no product leaves the   *)
(* integers the model checker computes with.                               *)
(***************************************************************************)
EXTENDS Integers, Sequences, FiniteSets, TLC

VARIABLES
    healthCriteria,   \* this.healthCriteria, set by the constructor
    pc,               \* per request: where the handleQuery call is suspended
    intent,           \* per request: intent.type
    channels,         \* per request: the list fetchRawChannelData returned
    pubkeyMap,        \* per request: addNodeAliases' pubkeyMap
    errorMap,         \* per request: addNodeAliases' errorMap
    nodeInfoPromises, \* per request: addNodeAliases' nodeInfoPromises
    channelData,      \* per request: handleQuery's channelData
    promise,          \* per request: the promise handleQuery returned
    gatewayCalls,     \* per request: the gateway calls it issued, in order
    fetched,          \* per request: how its getChannels call settled
    lookedUp,         \* per request: how each getNodeInfo call settled
    aliasStage,       \* per request: how far addNodeAliases got
    raised,           \* per request: the error raised inside the call, if any
    formatterCalls,   \* per request: the formatter views it called, in order
    lndHandles,       \* per request: how each of its getLnd calls returned
    rejection,        \* per request: the error a rejected promise of the call carries
    enrichedChannels, \* per request: getChannelData's enrichedChannels
    sumChannels,      \* the argument of a direct calculateChannelSummary call
    sumResult         \* and its result

vars == <<healthCriteria, pc, intent, channels, pubkeyMap, errorMap,
          nodeInfoPromises, channelData, promise, gatewayCalls, fetched,
          lookedUp, aliasStage, raised, formatterCalls, lndHandles,
          rejection, enrichedChannels, sumChannels, sumResult>>

handlerVars == <<pc, intent, channels, pubkeyMap, errorMap, nodeInfoPromises,
                 channelData, promise, gatewayCalls, fetched, lookedUp,
                 aliasStage, raised, formatterCalls, lndHandles,
                 rejection, enrichedChannels>>

(***************************************************************************)
(* Bounds of the model.                                                    *)
(***************************************************************************)
MaxChannels == 3          \* longest channel list the gateway returns
MaxSummaryChannels == 3   \* longest list given to calculateChannelSummary

(***************************************************************************)
(* Values.                                                                 *)
(***************************************************************************)
Pubkeys == {"02aa", "03bb", "03cc"}

Channel(pk, cap, lb, rb, act) ==
    [remote_pubkey |-> pk, capacity |-> cap, local_balance |-> lb,
     remote_balance |-> rb, active |-> act]

\* The channels the gateway returns to handleQuery: two different channels
\* with the first peer, one with each of the others.
GatewayChannels ==
    {Channel("02aa", 8, 1, 7, TRUE), Channel("02aa", 4, 2, 2, FALSE),
     Channel("03bb", 8, 4, 4, TRUE), Channel("03cc", 4, 0, 4, FALSE)}

\* The channels given to calculateChannelSummary directly: ratios 0, 1/8,
\* 1/4, 1/2, 3/4, 7/8 and 1, a zero capacity with and without a balance,
\* and ratios that no double holds exactly (1/10, 3/10, 7/10, 9/10).
SummaryShapes ==
    {<<0, 0>>, <<0, 1>>, <<4, 0>>, <<4, 1>>, <<4, 2>>, <<4, 3>>, <<4, 4>>,
     <<8, 1>>, <<8, 4>>, <<8, 7>>, <<10, 1>>, <<10, 3>>, <<10, 7>>, <<10, 9>>}

SummaryChannels ==
    {Channel("02aa", s[1], s[2], IF s[1] >= s[2] THEN s[1] - s[2] ELSE 0, act) :
        s \in SummaryShapes, act \in BOOLEAN}

SeqsUpTo(S, n) == UNION {[1..k -> S] : k \in 0..n}

Frac(n, d) == [num |-> n, den |-> d]

\* The constructor's default criteria (0.1, 0.9) and a caller-supplied
\* criteria (0.25, 0.75) whose bounds some channel ratios meet exactly.
DefaultHealthCriteria ==
    [minLocalRatio |-> Frac(1, 10), maxLocalRatio |-> Frac(9, 10)]

QuarterHealthCriteria ==
    [minLocalRatio |-> Frac(1, 4), maxLocalRatio |-> Frac(3, 4)]

HealthCriteriaValues == {DefaultHealthCriteria, QuarterHealthCriteria}

(***************************************************************************)
(* calculateChannelSummary                                                 *)
(***************************************************************************)
RECURSIVE SumField(_, _)
SumField(chs, f) ==
    IF chs = <<>> THEN 0 ELSE chs[1][f] + SumField(Tail(chs), f)

\* channel.local_balance / channel.capacity
LocalRatio(c) == Frac(c.local_balance, c.capacity)

\* a < b and a > b of JS numbers, a a quotient that may be NaN or Infinity,
\* b a finite number.
NumLess(a, b) ==
    IF a.den = 0 THEN FALSE ELSE a.num * b.den < b.num * a.den

NumGreater(a, b) ==
    IF a.den = 0 THEN a.num > 0 ELSE a.num * b.den > b.num * a.den

Abs(x) == IF x < 0 THEN 0 - x ELSE x

\* A double near the fraction num / den: num / den + ulps / (den * 2^exp).
Double(num, den, ulps, exp) == [num |-> num, den |-> den, ulps |-> ulps, exp |-> exp]

RECURSIVE Pow2(_)
Pow2(n) == IF n = 0 THEN 1 ELSE 2 * Pow2(n - 1)

SquareMod(x, m) == (x * x) % m

\* 2^k mod m, by squaring
RECURSIVE Pow2Mod(_, _)
Pow2Mod(k, m) ==
    IF k = 0 THEN 1 % m
    ELSE IF k % 2 = 0 THEN SquareMod(Pow2Mod(k \div 2, m), m)
    ELSE (2 * SquareMod(Pow2Mod(k \div 2, m), m)) % m

\* (p * 2^k) mod m
MulPow2Mod(p, k, m) == ((p % m) * Pow2Mod(k, m)) % m

\* The binary exponent e of p / c (p, c > 0): 2^e <= p / c < 2^(e + 1).
RECURSIVE BinaryExponent(_, _)
BinaryExponent(p, c) ==
    IF p >= 2 * c THEN BinaryExponent(p, 2 * c) + 1
    ELSE IF p >= c THEN 0
    ELSE BinaryExponent(2 * p, c) - 1

\* m + rem / c rounded up to m + 1 or down to m: the error of the result,
\* in units of 1 / c.
RoundedBy(rem, up, c) == IF up THEN c - rem ELSE 0 - rem

\* Round to nearest, ties to even, of m + rem / c (m odd or not).
RoundingError(rem, odd, c) ==
    RoundedBy(rem, 2 * rem > c \/ (2 * rem = c /\ odd), c)

\* local_balance / capacity in doubles, for c > 0: the quotient is
\* p / c + ulps / (c * 2^exp), a multiple of 2^-exp with 53 significant bits
\* (0 / c is exact); k is 52 less the binary exponent of p / c.
DivisionErrorAt(p, c, k) ==
    [ulps |-> RoundingError(MulPow2Mod(p, k, c), MulPow2Mod(p, k, 2 * c) >= c, c),
     exp |-> k]

DivisionError(p, c) ==
    IF p = 0 THEN [ulps |-> 0, exp |-> 52]
    ELSE DivisionErrorAt(p, c, 52 - BinaryExponent(p, c))

\* 0.5 - q for a quotient q = p / cap + ulps / (cap * 2^exp) below 0.25:
\* the difference lies in (0.25, 0.5) and is rounded to a multiple of
\* 2^-54.  The error of the result, in units of 1 / (cap * 2^54).
HalfMinusSmall(p, cap, ulps, exp) ==
    LET rem == MulPow2Mod(cap - 2 * p, 53, cap)
        odd == MulPow2Mod(cap - 2 * p, 53, 2 * cap) >= cap
        half == cap * Pow2(exp - 55)
        frac == rem * Pow2(exp - 54) - ulps
    IN  RoundedBy(rem, frac > half \/ (frac = half /\ odd), cap)

\* Math.abs(0.5 - localRatio), for capacity > 0.  The subtraction is exact
\* when the quotient is at least 0.25.
ImbalanceRatio(c) ==
    IF c.local_balance = 0 \/ 2 * c.local_balance = c.capacity
    THEN Double(Abs(c.capacity - 2 * c.local_balance), 2 * c.capacity, 0, 53)
    ELSE IF 4 * c.local_balance < c.capacity
    THEN Double(c.capacity - 2 * c.local_balance, 2 * c.capacity,
                HalfMinusSmall(c.local_balance, c.capacity,
                               DivisionError(c.local_balance, c.capacity).ulps,
                               DivisionError(c.local_balance, c.capacity).exp),
                53)
    ELSE Double(Abs(c.capacity - 2 * c.local_balance), 2 * c.capacity,
                IF 2 * c.local_balance < c.capacity
                THEN 0 - DivisionError(c.local_balance, c.capacity).ulps
                ELSE DivisionError(c.local_balance, c.capacity).ulps,
                DivisionError(c.local_balance, c.capacity).exp - 1)

\* imbalanceRatio > highestImbalanceRatio, of two doubles: different
\* fractions decide (they are farther apart than the rounding errors),
\* equal fractions leave it to the errors.
ImbalanceExceeds(ratio, highest) ==
    LET l == ratio.num * highest.den
        r == highest.num * ratio.den
        m == IF ratio.exp < highest.exp THEN ratio.exp ELSE highest.exp
    IN  IF l # r THEN l > r
        ELSE ratio.ulps * highest.den * Pow2(highest.exp - m)
                > highest.ulps * ratio.den * Pow2(ratio.exp - m)

\* The forEach over the channels: the state is the pair (index of
\* mostImbalancedChannel, 0 for undefined; highestImbalanceRatio).
RECURSIVE ScanImbalance(_, _, _, _)
ScanImbalance(chs, i, best, highest) ==
    IF i > Len(chs) THEN best
    ELSE IF chs[i].capacity > 0 /\ ImbalanceExceeds(ImbalanceRatio(chs[i]), highest)
         THEN ScanImbalance(chs, i + 1, i, ImbalanceRatio(chs[i]))
         ELSE ScanImbalance(chs, i + 1, best, highest)

\* mostImbalancedChannel, as the index of the selected channel in the list
\* (0 when it is left undefined).
MostImbalancedIndex(chs) == ScanImbalance(chs, 1, 0, Double(0, 1, 0, 53))

\* A plausible slip: the bounds themselves count as out of range.
IsUnhealthyInclusive(c, hc) ==
    IF ~c.active THEN TRUE
    ELSE \/ ~NumGreater(LocalRatio(c), hc.minLocalRatio)
         \/ ~NumLess(LocalRatio(c), hc.maxLocalRatio)

\* The filter predicate of unhealthyChannels.
IsUnhealthy(c, hc) ==
    IF ~c.active THEN TRUE
    ELSE \/ NumLess(LocalRatio(c), hc.minLocalRatio)
         \/ NumGreater(LocalRatio(c), hc.maxLocalRatio)

UnhealthyCount(chs, hc) ==
    Cardinality({i \in 1..Len(chs) : IsUnhealthy(chs[i], hc)})

\* A plausible slip: healthy channels counted among the active ones only.
HealthyCountOfActive(chs, unhealthy) ==
    Cardinality({i \in 1..Len(chs) : chs[i].active}) - unhealthy

\* healthyChannels: channels.length - unhealthyChannels
HealthyCount(chs, unhealthy) == Len(chs) - unhealthy

\* A plausible slip: no early return for the empty list, so the average is
\* 0 / 0.
SummaryOfNothing ==
    [totalCapacity |-> 0, totalLocalBalance |-> 0, totalRemoteBalance |-> 0,
     activeChannels |-> 0, inactiveChannels |-> 0, averageCapacity |-> Frac(0, 0),
     mostImbalancedChannel |-> 0, healthyChannels |-> 0, unhealthyChannels |-> 0]

EmptySummary ==
    [totalCapacity |-> 0, totalLocalBalance |-> 0, totalRemoteBalance |-> 0,
     activeChannels |-> 0, inactiveChannels |-> 0, averageCapacity |-> Frac(0, 1),
     mostImbalancedChannel |-> 0, healthyChannels |-> 0, unhealthyChannels |-> 0]

calculateChannelSummary(chs, hc) ==
    IF Len(chs) = 0 THEN EmptySummary
    ELSE LET totalCapacity == SumField(chs, "capacity")
             unhealthy == UnhealthyCount(chs, hc)
         IN  [totalCapacity |-> totalCapacity,
              totalLocalBalance |-> SumField(chs, "local_balance"),
              totalRemoteBalance |-> SumField(chs, "remote_balance"),
              activeChannels |-> Cardinality({i \in 1..Len(chs) : chs[i].active}),
              inactiveChannels |-> Cardinality({i \in 1..Len(chs) : ~chs[i].active}),
              averageCapacity |-> Frac(totalCapacity, Len(chs)),
              mostImbalancedChannel |-> MostImbalancedIndex(chs),
              healthyChannels |-> HealthyCount(chs, unhealthy),
              unhealthyChannels |-> unhealthy]

NoSummary == [pending |-> TRUE]

(***************************************************************************)
(* The handler before any request.                                         *)
(***************************************************************************)
Requests == {1}

NoError == [raisedBy |-> "none"]
NotSettled == [settled |-> FALSE]
PendingPromise == [state |-> "pending"]
NoChannelData == [pending |-> TRUE]
NotRejected == [rejected |-> FALSE]

InitHandler ==
    /\ pc = [r \in Requests |-> "idle"]
    /\ intent = [r \in Requests |-> "none"]
    /\ channels = [r \in Requests |-> <<>>]
    /\ pubkeyMap = [r \in Requests |-> <<>>]
    /\ errorMap = [r \in Requests |-> <<>>]
    /\ nodeInfoPromises = [r \in Requests |-> <<>>]
    /\ channelData = [r \in Requests |-> NoChannelData]
    /\ promise = [r \in Requests |-> PendingPromise]
    /\ gatewayCalls = [r \in Requests |-> <<>>]
    /\ fetched = [r \in Requests |-> NotSettled]
    /\ lookedUp = [r \in Requests |-> <<>>]
    /\ aliasStage = [r \in Requests |-> "none"]
    /\ formatterCalls = [r \in Requests |-> <<>>]
    /\ lndHandles = [r \in Requests |-> <<>>]
    /\ rejection = [r \in Requests |-> NotRejected]
    /\ enrichedChannels = [r \in Requests |-> <<>>]
    /\ raised = [r \in Requests |-> NoError]

(***************************************************************************)
(* calculateChannelSummary as a pure function of its inputs.               *)
(***************************************************************************)
InitSummary ==
    /\ healthCriteria \in HealthCriteriaValues
    /\ sumChannels \in SeqsUpTo(SummaryChannels, MaxSummaryChannels)
    /\ sumResult = NoSummary
    /\ InitHandler

Summarize ==
    /\ sumResult = NoSummary
    /\ sumResult' = calculateChannelSummary(sumChannels, healthCriteria)
    /\ UNCHANGED <<healthCriteria, sumChannels, handlerVars>>

NextSummary == Summarize

SpecSummary == InitSummary /\ [][NextSummary]_vars

(***************************************************************************)
(* Errors and the collaborators of the handler.                            *)
(***************************************************************************)
Error(m) == [message |-> m]

\* Messages of the errors the gateway and the formatter raise; the second
\* carries a file path.
RawMessages == {"connect ECONNREFUSED", "ENOENT: open /home/lnd/admin.macaroon"}

RawErrors == {Error(m) : m \in RawMessages}

\* sanitizeError of utils/sanitize: an Error whose message has file paths
\* and credentials redacted.
sanitizeError(error) ==
    IF error.message = "ENOENT: open /home/lnd/admin.macaroon"
    THEN Error("ENOENT: open [REDACTED]")
    ELSE Error(error.message)

Undefined == [kind |-> "undefined"]

\* this.lndClient.getLnd(): returns the handle or throws.
GetLndOutcomes == {[ok |-> TRUE]} \cup {[ok |-> FALSE, error |-> e] : e \in RawErrors}

\* The `channels` member of what lnService.getChannels resolves to (a list,
\* nothing, or an object that is no list), or its rejection.
GetChannelsOutcomes ==
    {[ok |-> TRUE, channels |-> [kind |-> "array", items |-> l]] :
        l \in SeqsUpTo(GatewayChannels, MaxChannels)}
    \cup {[ok |-> TRUE, channels |-> Undefined],
          [ok |-> TRUE, channels |-> [kind |-> "object"]]}
    \cup {[ok |-> FALSE, error |-> e] : e \in RawErrors}

\* What lnService.getNodeInfo resolves to for a key (a node with an alias,
\* a node with an empty alias, nothing), or its rejection.
GetNodeInfoOutcomes(pubkey) ==
    {[ok |-> TRUE, nodeInfo |-> [kind |-> "node", alias |-> "alias-" \o pubkey]],
     [ok |-> TRUE, nodeInfo |-> [kind |-> "node", alias |-> ""]],
     [ok |-> TRUE, nodeInfo |-> Undefined]}
    \cup {[ok |-> FALSE, error |-> Error("ENOENT: open /home/lnd/admin.macaroon")]}

\* A call of one of the three ChannelFormatter views: returns or throws.
FormatterOutcomes == {[ok |-> TRUE]} \cup {[ok |-> FALSE, error |-> e] : e \in RawErrors}

\* ChannelFormatter's views: a deterministic text over the channel data.
formatChannelList(data) ==
    "Channels: " \o ToString(Len(data.channels))

formatChannelHealth(data) ==
    "Health: " \o ToString(data.summary.healthyChannels) \o " healthy, "
        \o ToString(data.summary.unhealthyChannels) \o " unhealthy, "
        \o ToString(data.summary.activeChannels) \o " active, "
        \o ToString(data.summary.inactiveChannels) \o " inactive"

formatChannelLiquidity(data) ==
    "Liquidity: " \o ToString(data.summary.totalLocalBalance) \o " local, "
        \o ToString(data.summary.totalRemoteBalance) \o " remote"

IntentTypes ==
    {"channel_list", "channel_health", "channel_liquidity", "unknown", "node_info"}

FormatterIntents == {"channel_list", "channel_health", "channel_liquidity"}

(***************************************************************************)
(* handleQuery: the switch and the catch.                                  *)
(***************************************************************************)
EmptyObject == <<>>

GuidanceText ==
    "I didn't understand that query. Try asking about your channel list, health, or liquidity."

QueryResult(type, text, data) ==
    [type |-> type, text |-> text, response |-> text, data |-> data]

\* A plausible slip: the default case falls through to the channel list.
SwitchResultDefaultList(type, data) ==
    CASE type = "channel_health" ->
            QueryResult("channel_health", formatChannelHealth(data), data)
      [] type = "channel_liquidity" ->
            QueryResult("channel_liquidity", formatChannelLiquidity(data), data)
      [] OTHER -> QueryResult("channel_list", formatChannelList(data), data)

\* switch (intent.type), all formatter calls returning
SwitchResult(type, data) ==
    CASE type = "channel_list" ->
            QueryResult("channel_list", formatChannelList(data), data)
      [] type = "channel_health" ->
            QueryResult("channel_health", formatChannelHealth(data), data)
      [] type = "channel_liquidity" ->
            QueryResult("channel_liquidity", formatChannelLiquidity(data), data)
      [] OTHER -> QueryResult("unknown", GuidanceText, EmptyObject)

\* The formatter calls of the switch: each case calls its view for `text`
\* and again for `response`; a call that throws is the last one.
FormatterCallsOf(type, fmt) ==
    LET view == CASE type = "channel_list" -> <<"formatChannelList">>
                  [] type = "channel_health" -> <<"formatChannelHealth">>
                  [] type = "channel_liquidity" -> <<"formatChannelLiquidity">>
                  [] OTHER -> <<>>
    IN  IF fmt.ok THEN view \o view ELSE view

Fulfilled(value) == [state |-> "fulfilled", value |-> value]
Rejected(reason) == [state |-> "rejected", reason |-> reason]

ErrorResult(error, data) ==
    [type |-> "error", text |-> "Error processing your query: " \o error.message,
     response |-> "Error processing your query: " \o error.message,
     error |-> error, data |-> data]

\* A plausible slip: the catch logs and rethrows.
HandleQueryCatchRethrows(error) == Rejected(error)

\* A plausible slip: the catch answers with an empty channel list and summary.
HandleQueryCatchWithData(error) ==
    Fulfilled(ErrorResult(error, [channels |-> <<>>, summary |-> EmptySummary]))

\* catch (error) of handleQuery: how the returned promise settles.
HandleQueryCatch(error) == Fulfilled(ErrorResult(error, EmptyObject))

\* catch (error) of getChannelData: the error it throws.
GetChannelDataCatch(error) == sanitizeError(error)

(***************************************************************************)
(* fetchRawChannelData, addNodeAliases                                     *)
(***************************************************************************)
\* if (!channels || !Array.isArray(channels)) return []; return channels
fetchRawChannelData(value) ==
    IF value.kind # "array" THEN <<>> ELSE value.items

RECURSIVE FirstOccurrences(_, _)
FirstOccurrences(chs, seen) ==
    IF chs = <<>> THEN <<>>
    ELSE IF chs[1].remote_pubkey \in seen
         THEN FirstOccurrences(Tail(chs), seen)
         ELSE <<chs[1].remote_pubkey>>
                  \o FirstOccurrences(Tail(chs), seen \cup {chs[1].remote_pubkey})

\* A plausible slip: one lookup per channel.
PubkeyOfEachChannel(chs) == [i \in 1..Len(chs) |-> chs[i].remote_pubkey]

\* Array.from(pubkeyMap.keys()): the distinct keys, in insertion order.
PubkeysOf(chs) == FirstOccurrences(chs, {})

Range(f) == {f[i] : i \in DOMAIN f}

\* nodeInfo?.alias || 'Unknown'
AliasOrUnknown(nodeInfo) ==
    IF nodeInfo.kind = "undefined" THEN "Unknown"
    ELSE IF nodeInfo.alias = "" THEN "Unknown" ELSE nodeInfo.alias

\* What one nodeInfoPromises callback returns once its lookup settled.
NodeInfoResult(pubkey, outcome) ==
    IF outcome.ok
    THEN [pubkey |-> pubkey, alias |-> AliasOrUnknown(outcome.nodeInfo)]
    ELSE [pubkey |-> pubkey, alias |-> "Unknown (Error retrieving)"]

AliasRetrievalFailed(error) ==
    [type |-> "alias_retrieval_failed", message |-> error.message]

WithAlias(channel, alias) ==
    [k \in DOMAIN channel \cup {"remote_alias"} |->
        IF k = "remote_alias" THEN alias ELSE channel[k]]

WithAliasAndError(channel, alias, errorInfo) ==
    [k \in DOMAIN channel \cup {"remote_alias", "_error"} |->
        IF k = "remote_alias" THEN alias
        ELSE IF k = "_error" THEN errorInfo ELSE channel[k]]

\* pubkeyMap.get(channel.remote_pubkey) || 'Unknown'
AliasFromMap(pm, pubkey) ==
    IF pubkey \notin DOMAIN pm THEN "Unknown"
    ELSE IF pm[pubkey] = "" THEN "Unknown" ELSE pm[pubkey]

\* A plausible slip: any recorded error marks every channel.
EnrichChannelAnyError(channel, pm, em) ==
    IF DOMAIN em # {}
    THEN WithAliasAndError(channel, AliasFromMap(pm, channel.remote_pubkey),
                           em[CHOOSE p \in DOMAIN em : TRUE])
    ELSE WithAlias(channel, AliasFromMap(pm, channel.remote_pubkey))

\* The callback of channels.map in the try block.
EnrichChannel(channel, pm, em) ==
    IF channel.remote_pubkey \in DOMAIN em
    THEN WithAliasAndError(channel, AliasFromMap(pm, channel.remote_pubkey),
                           em[channel.remote_pubkey])
    ELSE WithAlias(channel, AliasFromMap(pm, channel.remote_pubkey))

\* A plausible slip: channels whose lookup failed are filtered out.
MapChannelsDroppingFailed(chs, pm, em) ==
    LET Kept(c) == c.remote_pubkey \notin DOMAIN em
        kept == SelectSeq(chs, Kept)
    IN  [i \in 1..Len(kept) |-> EnrichChannel(kept[i], pm, em)]

\* const result = channels.map(...)
MapChannels(chs, pm, em) ==
    [i \in 1..Len(chs) |-> EnrichChannel(chs[i], pm, em)]

\* A plausible slip: Object.assign(channel, {...}) in place of the spread, so
\* that the fetched objects themselves carry the added fields.
ChannelsAssignedInPlace(chs, result) == result

\* The fetched list after channels.map: each callback builds a new object
\* from {...channel}, and nothing is written to the channel it was given.
ChannelsAfterMap(chs, result) == chs

\* A plausible slip: the outer catch sets the alias and no annotation.
MarkAllChannelsAliasOnly(chs, sanitizedError) ==
    [i \in 1..Len(chs) |-> WithAlias(chs[i], "Unknown (Error retrieving)")]

\* The outer catch of addNodeAliases: every channel marked.
MarkAllChannels(chs, sanitizedError) ==
    [i \in 1..Len(chs) |->
        WithAliasAndError(chs[i], "Unknown (Error retrieving)",
                          AliasRetrievalFailed(sanitizedError))]

\* A plausible slip: errorMap kept on the handler instance, so that every
\* call in flight sees the entry.
ErrorMapSetOnInstance(em, r, pubkey, error) ==
    [q \in DOMAIN em |->
        [p \in DOMAIN em[q] \cup {pubkey} |->
            IF p = pubkey THEN AliasRetrievalFailed(sanitizeError(error))
            ELSE em[q][p]]]

\* errorMap.set(pubkey, {...}) in the catch of a lookup callback: errorMap
\* is a local of the addNodeAliases call of request r.
ErrorMapSet(em, r, pubkey, error) ==
    [em EXCEPT ![r] =
        [p \in DOMAIN @ \cup {pubkey} |->
            IF p = pubkey THEN AliasRetrievalFailed(sanitizeError(error))
            ELSE @[p]]]

\* A plausible slip: the join continues as soon as one lookup has settled.
PromiseAnySettled(promises) ==
    \E i \in DOMAIN promises : promises[i].state = "fulfilled"

\* await Promise.all(nodeInfoPromises): no callback rejects, so the join
\* continues when every one of them is fulfilled.
PromiseAllSettled(promises) ==
    \A i \in DOMAIN promises : promises[i].state = "fulfilled"

\* nodeInfos.forEach((info) => pubkeyMap.set(info.pubkey, info.alias))
UpdatedPubkeyMap(pm, promises) ==
    [p \in DOMAIN pm |->
        IF \E i \in DOMAIN promises :
               promises[i].state = "fulfilled" /\ promises[i].value.pubkey = p
        THEN LET i == CHOOSE j \in DOMAIN promises :
                          /\ promises[j].state = "fulfilled"
                          /\ promises[j].value.pubkey = p
                          /\ \A k \in DOMAIN promises :
                                (promises[k].state = "fulfilled"
                                    /\ promises[k].value.pubkey = p) => k <= j
             IN  promises[i].value.alias
        ELSE pm[p]]

(***************************************************************************)
(* The steps of one handleQuery call.  Each step is one run of the call    *)
(* between two suspensions: handleQuery, getChannelData and                *)
(* fetchRawChannelData each resume from their await in a turn of their     *)
(* own, and the turns of other calls may run in between.                   *)
(***************************************************************************)
\* handleQuery is called: it runs through getChannelData into
\* fetchRawChannelData, to the await of getChannels, or to the throw of
\* getLnd, which rejects fetchRawChannelData's promise.  Either way the
\* caller gets a pending promise.
HandleQuery(r, type, lnd) ==
    /\ pc[r] = "idle"
    /\ intent' = [intent EXCEPT ![r] = type]
    /\ lndHandles' = [lndHandles EXCEPT ![r] = <<lnd>>]
    /\ IF lnd.ok
       THEN /\ pc' = [pc EXCEPT ![r] = "getChannels"]
            /\ gatewayCalls' = [gatewayCalls EXCEPT ![r] = Append(@, [call |-> "getChannels"])]
            /\ UNCHANGED <<raised, rejection>>
       ELSE /\ pc' = [pc EXCEPT ![r] = "fetchRejected"]
            /\ raised' = [raised EXCEPT ![r] = [raisedBy |-> "getLnd", error |-> lnd.error]]
            /\ rejection' = [rejection EXCEPT ![r] = lnd.error]
            /\ UNCHANGED gatewayCalls
    /\ UNCHANGED <<healthCriteria, channels, pubkeyMap, errorMap, nodeInfoPromises,
                   channelData, promise, fetched, lookedUp, aliasStage,
                   formatterCalls, enrichedChannels, sumChannels, sumResult>>

\* getChannels settles: fetchRawChannelData resumes and returns the list, or
\* its promise is rejected.
GetChannelsSettles(r, out) ==
    /\ pc[r] = "getChannels"
    /\ fetched' = [fetched EXCEPT ![r] = out]
    /\ IF out.ok
       THEN /\ pc' = [pc EXCEPT ![r] = "fetched"]
            /\ channels' = [channels EXCEPT ![r] = fetchRawChannelData(out.channels)]
            /\ UNCHANGED <<raised, rejection>>
       ELSE /\ pc' = [pc EXCEPT ![r] = "fetchRejected"]
            /\ raised' = [raised EXCEPT ![r] =
                    [raisedBy |-> "getChannels", error |-> out.error]]
            /\ rejection' = [rejection EXCEPT ![r] = out.error]
            /\ UNCHANGED channels
    /\ UNCHANGED <<healthCriteria, intent, pubkeyMap, errorMap, nodeInfoPromises,
                   channelData, promise, gatewayCalls, lookedUp, aliasStage,
                   formatterCalls, lndHandles, enrichedChannels, sumChannels,
                   sumResult>>

\* getChannelData resumes in its catch: it sanitizes the error and rethrows,
\* which rejects its own promise.
GetChannelDataRejects(r) ==
    /\ pc[r] = "fetchRejected"
    /\ pc' = [pc EXCEPT ![r] = "dataRejected"]
    /\ rejection' = [rejection EXCEPT ![r] = GetChannelDataCatch(@)]
    /\ UNCHANGED <<healthCriteria, intent, channels, pubkeyMap, errorMap,
                   nodeInfoPromises, channelData, promise, gatewayCalls, fetched,
                   lookedUp, aliasStage, raised, formatterCalls, lndHandles,
                   enrichedChannels, sumChannels, sumResult>>

\* handleQuery resumes in its catch and returns the error result.
HandleQueryCatches(r) ==
    /\ pc[r] = "dataRejected"
    /\ pc' = [pc EXCEPT ![r] = "done"]
    /\ promise' = [promise EXCEPT ![r] = HandleQueryCatch(rejection[r])]
    /\ UNCHANGED <<healthCriteria, intent, channels, pubkeyMap, errorMap,
                   nodeInfoPromises, channelData, gatewayCalls, fetched, lookedUp,
                   aliasStage, raised, formatterCalls, lndHandles, rejection,
                   enrichedChannels, sumChannels, sumResult>>

\* getChannelData resumes with the fetched list and calls
\* enrichChannelsWithMetadata: nothing to do for the empty list; otherwise
\* addNodeAliases runs to its Promise.all, or through its outer catch when
\* getLnd throws.
enrichChannelsWithMetadata(r, lnd) ==
    LET chs == channels[r]
        keys == PubkeysOf(chs)
    IN  /\ pc[r] = "fetched"
        /\ IF Len(chs) = 0
           THEN /\ pc' = [pc EXCEPT ![r] = "enriched"]
                /\ aliasStage' = [aliasStage EXCEPT ![r] = "skipped"]
                /\ enrichedChannels' = [enrichedChannels EXCEPT ![r] = <<>>]
                /\ UNCHANGED <<channels, pubkeyMap, nodeInfoPromises, gatewayCalls,
                               lndHandles>>
           ELSE IF ~lnd.ok
           THEN /\ pc' = [pc EXCEPT ![r] = "enriched"]
                /\ aliasStage' = [aliasStage EXCEPT ![r] = "failed"]
                /\ lndHandles' = [lndHandles EXCEPT ![r] = Append(@, lnd)]
                /\ enrichedChannels' = [enrichedChannels EXCEPT ![r] =
                        MarkAllChannels(chs, sanitizeError(lnd.error))]
                /\ channels' = [channels EXCEPT ![r] = ChannelsAfterMap(chs,
                        MarkAllChannels(chs, sanitizeError(lnd.error)))]
                /\ UNCHANGED <<pubkeyMap, nodeInfoPromises, gatewayCalls>>
           ELSE /\ pc' = [pc EXCEPT ![r] = "lookups"]
                /\ aliasStage' = [aliasStage EXCEPT ![r] = "started"]
                /\ lndHandles' = [lndHandles EXCEPT ![r] = Append(@, lnd)]
                /\ pubkeyMap' = [pubkeyMap EXCEPT ![r] =
                        [p \in {c.remote_pubkey : c \in Range(chs)} |-> ""]]
                /\ nodeInfoPromises' = [nodeInfoPromises EXCEPT ![r] =
                        [i \in 1..Len(keys) |->
                            [pubkey |-> keys[i], state |-> "pending"]]]
                /\ gatewayCalls' = [gatewayCalls EXCEPT ![r] =
                        @ \o [i \in 1..Len(keys) |->
                                [call |-> "getNodeInfo", public_key |-> keys[i]]]]
                /\ UNCHANGED <<channels, enrichedChannels>>
        /\ UNCHANGED <<healthCriteria, intent, errorMap, channelData, promise,
                       fetched, lookedUp, raised, formatterCalls, rejection,
                       sumChannels, sumResult>>

\* One getNodeInfo call settles and its callback runs to its return.
GetNodeInfoSettles(r, i, out) ==
    /\ pc[r] = "lookups"
    /\ i \in DOMAIN nodeInfoPromises[r]
    /\ nodeInfoPromises[r][i].state = "pending"
    /\ LET pubkey == nodeInfoPromises[r][i].pubkey
       IN  /\ nodeInfoPromises' = [nodeInfoPromises EXCEPT ![r][i] =
                    [pubkey |-> pubkey, state |-> "fulfilled",
                     value |-> NodeInfoResult(pubkey, out)]]
           /\ errorMap' = IF out.ok THEN errorMap
                          ELSE ErrorMapSet(errorMap, r, pubkey, out.error)
           /\ lookedUp' = [lookedUp EXCEPT ![r] =
                    [p \in DOMAIN @ \cup {pubkey} |-> IF p = pubkey THEN out ELSE @[p]]]
    /\ UNCHANGED <<healthCriteria, pc, intent, channels, pubkeyMap, channelData,
                   promise, gatewayCalls, fetched, aliasStage, raised,
                   formatterCalls, lndHandles, rejection, enrichedChannels,
                   sumChannels, sumResult>>

\* Promise.all resolves: addNodeAliases resumes, updates pubkeyMap, maps the
\* channels and returns.
PromiseAllResolves(r) ==
    /\ pc[r] = "lookups"
    /\ PromiseAllSettled(nodeInfoPromises[r])
    /\ LET pm == UpdatedPubkeyMap(pubkeyMap[r], nodeInfoPromises[r])
       IN  /\ pubkeyMap' = [pubkeyMap EXCEPT ![r] = pm]
           /\ enrichedChannels' = [enrichedChannels EXCEPT ![r] =
                    MapChannels(channels[r], pm, errorMap[r])]
           /\ channels' = [channels EXCEPT ![r] = ChannelsAfterMap(@,
                    MapChannels(@, pm, errorMap[r]))]
    /\ pc' = [pc EXCEPT ![r] = "enriched"]
    /\ aliasStage' = [aliasStage EXCEPT ![r] = "mapped"]
    /\ UNCHANGED <<healthCriteria, intent, errorMap, nodeInfoPromises, channelData,
                   promise, gatewayCalls, fetched, lookedUp, raised,
                   formatterCalls, lndHandles, rejection, sumChannels, sumResult>>

\* getChannelData resumes with the enriched channels, computes the summary
\* and returns the channel data.
GetChannelDataReturns(r) ==
    /\ pc[r] = "enriched"
    /\ pc' = [pc EXCEPT ![r] = "dataReady"]
    /\ channelData' = [channelData EXCEPT ![r] =
            [channels |-> enrichedChannels[r],
             summary |-> calculateChannelSummary(enrichedChannels[r], healthCriteria)]]
    /\ UNCHANGED <<healthCriteria, intent, channels, pubkeyMap, errorMap,
                   nodeInfoPromises, promise, gatewayCalls, fetched, lookedUp,
                   aliasStage, raised, formatterCalls, lndHandles, rejection,
                   enrichedChannels, sumChannels, sumResult>>

\* handleQuery resumes with the channel data: the switch (a formatter view
\* may throw) and the return, or the catch.
HandleQueryReturns(r, fmt) ==
    LET throws == intent[r] \in FormatterIntents /\ ~fmt.ok
    IN  /\ pc[r] = "dataReady"
        /\ pc' = [pc EXCEPT ![r] = "done"]
        /\ formatterCalls' = [formatterCalls EXCEPT ![r] = FormatterCallsOf(intent[r], fmt)]
        /\ raised' = [raised EXCEPT ![r] =
                IF throws THEN [raisedBy |-> "formatter", error |-> fmt.error]
                ELSE NoError]
        /\ promise' = [promise EXCEPT ![r] =
                IF throws THEN HandleQueryCatch(fmt.error)
                ELSE Fulfilled(SwitchResult(intent[r], channelData[r]))]
        /\ UNCHANGED <<healthCriteria, intent, channels, pubkeyMap, errorMap,
                       nodeInfoPromises, channelData, gatewayCalls, fetched,
                       lookedUp, aliasStage, lndHandles, rejection,
                       enrichedChannels, sumChannels, sumResult>>

Init ==
    /\ healthCriteria = DefaultHealthCriteria
    /\ InitHandler
    /\ sumChannels = <<>>
    /\ sumResult = NoSummary

Call ==
    \E r \in DOMAIN pc, type \in IntentTypes, lnd \in GetLndOutcomes :
        HandleQuery(r, type, lnd)

ChannelsArrive ==
    \E r \in DOMAIN pc, out \in GetChannelsOutcomes : GetChannelsSettles(r, out)

FetchRejected == \E r \in DOMAIN pc : GetChannelDataRejects(r)

ErrorAnswered == \E r \in DOMAIN pc : HandleQueryCatches(r)

Enrich ==
    \E r \in DOMAIN pc, lnd \in GetLndOutcomes : enrichChannelsWithMetadata(r, lnd)

NodeInfoArrives ==
    \E r \in DOMAIN pc :
        \E i \in DOMAIN nodeInfoPromises[r] :
            \E out \in GetNodeInfoOutcomes(nodeInfoPromises[r][i].pubkey) :
                GetNodeInfoSettles(r, i, out)

Join == \E r \in DOMAIN pc : PromiseAllResolves(r)

DataReturned == \E r \in DOMAIN pc : GetChannelDataReturns(r)

Answered ==
    \E r \in DOMAIN pc, fmt \in FormatterOutcomes : HandleQueryReturns(r, fmt)

Next ==
    \/ Call
    \/ ChannelsArrive
    \/ FetchRejected
    \/ ErrorAnswered
    \/ Enrich
    \/ NodeInfoArrives
    \/ Join
    \/ DataReturned
    \/ Answered

Spec == Init /\ [][Next]_vars

(***************************************************************************)
(* Two handleQuery calls in flight on one handler: the calls share the     *)
(* handler's fields (healthCriteria, the gateway client, the formatter)    *)
(* and nothing else; their steps interleave at every await.                *)
(***************************************************************************)
MaxConcurrentChannels == 2

ConcurrentRequests == {1, 2}

ConcurrentIntents == {"channel_list", "channel_health"}

ConcurrentGetLndOutcomes ==
    {[ok |-> TRUE], [ok |-> FALSE, error |-> Error("connect ECONNREFUSED")]}

\* Two channels with one peer and one with another; both requests draw
\* from the same peers.
ConcurrentChannels ==
    {Channel("02aa", 8, 1, 7, TRUE), Channel("02aa", 4, 2, 2, FALSE),
     Channel("03bb", 8, 4, 4, TRUE)}

ConcurrentGetChannelsOutcomes ==
    {[ok |-> TRUE, channels |-> [kind |-> "array", items |-> l]] :
        l \in SeqsUpTo(ConcurrentChannels, MaxConcurrentChannels)}
    \cup {[ok |-> TRUE, channels |-> Undefined],
          [ok |-> FALSE, error |-> Error("connect ECONNREFUSED")]}

ConcurrentGetNodeInfoOutcomes(pubkey) ==
    {[ok |-> TRUE, nodeInfo |-> [kind |-> "node", alias |-> "alias-" \o pubkey]],
     [ok |-> FALSE, error |-> Error("ENOENT: open /home/lnd/admin.macaroon")]}

InitConcurrent ==
    /\ healthCriteria = DefaultHealthCriteria
    /\ pc = [r \in ConcurrentRequests |-> "idle"]
    /\ intent = [r \in ConcurrentRequests |-> "none"]
    /\ channels = [r \in ConcurrentRequests |-> <<>>]
    /\ pubkeyMap = [r \in ConcurrentRequests |-> <<>>]
    /\ errorMap = [r \in ConcurrentRequests |-> <<>>]
    /\ nodeInfoPromises = [r \in ConcurrentRequests |-> <<>>]
    /\ channelData = [r \in ConcurrentRequests |-> NoChannelData]
    /\ promise = [r \in ConcurrentRequests |-> PendingPromise]
    /\ gatewayCalls = [r \in ConcurrentRequests |-> <<>>]
    /\ fetched = [r \in ConcurrentRequests |-> NotSettled]
    /\ lookedUp = [r \in ConcurrentRequests |-> <<>>]
    /\ aliasStage = [r \in ConcurrentRequests |-> "none"]
    /\ raised = [r \in ConcurrentRequests |-> NoError]
    /\ formatterCalls = [r \in ConcurrentRequests |-> <<>>]
    /\ lndHandles = [r \in ConcurrentRequests |-> <<>>]
    /\ rejection = [r \in ConcurrentRequests |-> NotRejected]
    /\ enrichedChannels = [r \in ConcurrentRequests |-> <<>>]
    /\ sumChannels = <<>>
    /\ sumResult = NoSummary

CallConcurrent ==
    \E r \in DOMAIN pc, type \in ConcurrentIntents,
       lnd \in ConcurrentGetLndOutcomes :
        HandleQuery(r, type, lnd)

ChannelsArriveConcurrent ==
    \E r \in DOMAIN pc, out \in ConcurrentGetChannelsOutcomes :
        GetChannelsSettles(r, out)

EnrichConcurrent ==
    \E r \in DOMAIN pc, lnd \in ConcurrentGetLndOutcomes :
        enrichChannelsWithMetadata(r, lnd)

NodeInfoArrivesConcurrent ==
    \E r \in DOMAIN pc :
        \E i \in DOMAIN nodeInfoPromises[r] :
            \E out \in ConcurrentGetNodeInfoOutcomes(nodeInfoPromises[r][i].pubkey) :
                GetNodeInfoSettles(r, i, out)

AnsweredConcurrent == \E r \in DOMAIN pc : HandleQueryReturns(r, [ok |-> TRUE])

NextConcurrent ==
    \/ CallConcurrent
    \/ ChannelsArriveConcurrent
    \/ FetchRejected
    \/ ErrorAnswered
    \/ EnrichConcurrent
    \/ NodeInfoArrivesConcurrent
    \/ Join
    \/ DataReturned
    \/ AnsweredConcurrent

SpecConcurrent == InitConcurrent /\ [][NextConcurrent]_vars

(***************************************************************************)
(* Properties of calculateChannelSummary (checked under SpecSummary).      *)
(***************************************************************************)
Summarized == sumResult # NoSummary

\* What the documentation calls a ratio outside [minLocalRatio,
\* maxLocalRatio]: below the lower bound or above the upper one.  With a
\* zero capacity the ratio of a zero balance is undefined (in no relation to
\* the bounds) and that of a positive balance is infinite (above them).
RatioOutside(c, hc) ==
    IF c.capacity = 0 THEN c.local_balance > 0
    ELSE \/ c.local_balance * hc.minLocalRatio.den < hc.minLocalRatio.num * c.capacity
         \/ c.local_balance * hc.maxLocalRatio.den > hc.maxLocalRatio.num * c.capacity

RatioOnBound(c, hc) ==
    /\ c.capacity > 0
    /\ \/ c.local_balance * hc.minLocalRatio.den = hc.minLocalRatio.num * c.capacity
       \/ c.local_balance * hc.maxLocalRatio.den = hc.maxLocalRatio.num * c.capacity

\* C8: for every channel set and every health criteria, the summary has
\* healthyChannels + unhealthyChannels = number of channels.
C8_HealthyPlusUnhealthy ==
    Summarized =>
        sumResult.healthyChannels + sumResult.unhealthyChannels = Len(sumChannels)

\* C8's case: a summary of three channels, some inactive, with both healthy
\* and unhealthy channels.
C8_Witness ==
    /\ Summarized
    /\ Len(sumChannels) = 3
    /\ \E i \in 1..3 : ~sumChannels[i].active
    /\ sumResult.healthyChannels > 0
    /\ sumResult.unhealthyChannels > 0

\* C9: unhealthyChannels counts exactly the channels that are inactive or
\* whose local ratio is outside [minLocalRatio, maxLocalRatio], and every
\* other channel is counted healthy (so an inactive channel is unhealthy
\* whatever its ratio, and an active channel on a bound is healthy).
C9_UnhealthyExactly ==
    Summarized =>
        LET idx == 1..Len(sumChannels)
            bad == {i \in idx : \/ ~sumChannels[i].active
                                 \/ RatioOutside(sumChannels[i], healthCriteria)}
        IN  /\ sumResult.unhealthyChannels = Cardinality(bad)
            /\ sumResult.healthyChannels = Cardinality(idx \ bad)

\* C9's case: an inactive channel whose ratio is within the bounds and an
\* active channel whose ratio is exactly a bound, summarized together.
C9_Witness ==
    /\ Summarized
    /\ Len(sumChannels) = 2
    /\ ~sumChannels[1].active
    /\ sumChannels[1].capacity > 0
    /\ ~RatioOutside(sumChannels[1], healthCriteria)
    /\ sumChannels[2].active
    /\ RatioOnBound(sumChannels[2], healthCriteria)
    /\ sumResult.unhealthyChannels = 1
    /\ sumResult.healthyChannels = 1

\* abs(0.5 - local/capacity) of channel a is at most (less than) that of b,
\* both of positive capacity.
ImbalanceLeq(a, b) ==
    Abs(a.capacity - 2 * a.local_balance) * 2 * b.capacity
        <= Abs(b.capacity - 2 * b.local_balance) * 2 * a.capacity

ImbalanceLess(a, b) == ~ImbalanceLeq(b, a)

Candidates(chs) == {i \in 1..Len(chs) : chs[i].capacity > 0}

\* i is the first channel in input order, among those of positive capacity,
\* whose imbalance ratio is the highest of the set.
IsFirstHighest(chs, i) ==
    /\ i \in Candidates(chs)
    /\ \A j \in Candidates(chs) : ImbalanceLeq(chs[j], chs[i])
    /\ \A j \in Candidates(chs) : j < i => ImbalanceLess(chs[j], chs[i])

\* Some channel has a positive capacity and a ratio other than 0.5.
HasImbalancedChannel(chs) ==
    \E i \in Candidates(chs) : chs[i].capacity # 2 * chs[i].local_balance

\* C10: the most imbalanced channel is the first channel in input order,
\* among the channels with capacity > 0, whose imbalance ratio
\* abs(0.5 - local_balance / capacity) is the highest of the set, whenever
\* some channel has capacity > 0 and a ratio other than 0.5 (and the entry
\* is absent otherwise); channels with capacity 0 are never selected.
C10_MostImbalanced ==
    Summarized =>
        IF HasImbalancedChannel(sumChannels)
        THEN IsFirstHighest(sumChannels, sumResult.mostImbalancedChannel)
        ELSE sumResult.mostImbalancedChannel = 0

(***************************************************************************)
(* Properties of handleQuery (checked under Spec).                         *)
(***************************************************************************)
Done(r) == pc[r] = "done"

ResultTypes == {"channel_list", "channel_health", "channel_liquidity", "unknown", "error"}

IsQueryResult(v) ==
    /\ {"type", "text", "response", "data"} \subseteq DOMAIN v
    /\ v.type \in ResultTypes

FetchFailed(r) == raised[r].raisedBy \in {"getLnd", "getChannels"}

NodeInfoCalls(r) ==
    {i \in DOMAIN gatewayCalls[r] : gatewayCalls[r][i].call = "getNodeInfo"}

LookupsOf(r, pubkey) ==
    {i \in NodeInfoCalls(r) : gatewayCalls[r][i].public_key = pubkey}

DistinctPubkeys(chs) == {chs[i].remote_pubkey : i \in DOMAIN chs}

\* The peers whose lookup the gateway rejected.
FailedPeers(r) == {p \in DOMAIN lookedUp[r] : ~lookedUp[r][p].ok}

\* The steps of a call that hand a rejection on.
Catches(r) == GetChannelDataRejects(r) \/ HandleQueryCatches(r)

\* C1: handleQuery never rejects: for every intent and every combination of
\* gateway and formatter outcomes the returned promise is pending only while
\* the call waits for the gateway (for getChannels, or for a lookup that can
\* still settle) or for its own next turn, which it can always take (the
\* turn that computes the summary has no condition but its place), and is
\* otherwise fulfilled with a QueryResult, of type 'error' when an error was
\* raised.
C1_AlwaysResolves ==
    \A r \in DOMAIN pc :
        /\ promise[r].state # "rejected"
        /\ ~Done(r) => promise[r].state = "pending"
        /\ pc[r] = "getChannels" => ENABLED ChannelsArrive
        /\ pc[r] = "lookups" =>
                \/ ENABLED NodeInfoArrives
                \/ PromiseAllSettled(nodeInfoPromises[r]) /\ ENABLED Join
        /\ pc[r] = "fetched" => ENABLED Enrich
        /\ pc[r] \in {"fetchRejected", "dataRejected"} => ENABLED Catches(r)
        /\ pc[r] = "enriched" => channelData[r] = NoChannelData
        /\ pc[r] = "dataReady" => ENABLED Answered
        /\ Done(r) =>
                /\ promise[r].state = "fulfilled"
                /\ IsQueryResult(promise[r].value)
                /\ raised[r] # NoError =>
                        /\ promise[r].value.type = "error"
                        /\ "error" \in DOMAIN promise[r].value

\* C1's case: a lookup failed, the others settled, and then the formatter
\* threw; the call still returned, with a result of type 'error'.
C1_Witness ==
    \E r \in DOMAIN pc :
        /\ Done(r)
        /\ aliasStage[r] = "mapped"
        /\ FailedPeers(r) # {}
        /\ raised[r].raisedBy = "formatter"
        /\ promise[r].state = "fulfilled"
        /\ promise[r].value.type = "error"

\* C2: in every result of type 'error' the error field and the error text of
\* the message are the output of sanitizeError, whichever step raised the
\* error (channel fetch, enrichment, summary or response formatting).
C2_ErrorsSanitized ==
    \A r \in DOMAIN pc :
        (Done(r) /\ promise[r].state = "fulfilled" /\ promise[r].value.type = "error") =>
            /\ promise[r].value.error = sanitizeError(raised[r].error)
            /\ promise[r].value.text =
                  "Error processing your query: " \o sanitizeError(raised[r].error).message

\* C3: when the channel-list fetch fails, handleQuery returns a result of
\* type 'error' with an error field and empty data, for every intent type;
\* no channel list or summary is produced and no alias lookup is issued.
C3_FetchFailure ==
    \A r \in DOMAIN pc :
        (Done(r) /\ FetchFailed(r)) =>
            /\ promise[r].state = "fulfilled"
            /\ promise[r].value.type = "error"
            /\ "error" \in DOMAIN promise[r].value
            /\ promise[r].value.data = EmptyObject
            /\ channelData[r] = NoChannelData
            /\ NodeInfoCalls(r) = {}

\* C3's case: getChannels was called and rejected, for an intent that no
\* formatter serves, and the call returned the error result.
C3_Witness ==
    \E r \in DOMAIN pc :
        /\ Done(r)
        /\ intent[r] = "unknown"
        /\ fetched[r] # NotSettled
        /\ ~fetched[r].ok
        /\ promise[r].state = "fulfilled"
        /\ promise[r].value.type = "error"

\* The alias a successful lookup resolves to: the node's alias, 'Unknown'
\* when the node has none.
ResolvedAlias(outcome) ==
    IF outcome.nodeInfo = Undefined THEN "Unknown"
    ELSE IF outcome.nodeInfo.alias = "" THEN "Unknown" ELSE outcome.nodeInfo.alias

\* C4: after a fan-out in which the lookups of the peers in F failed, exactly
\* the channels whose remote_pubkey is in F carry alias "Unknown (Error
\* retrieving)" and an alias_retrieval_failed annotation, every other channel
\* carries its peer's resolved alias and no annotation, and the call did not
\* fail: the channel data was produced, and the result is an error only if a
\* formatter threw afterwards.
C4_PerPeerIsolation ==
    \A r \in DOMAIN pc :
        (Done(r) /\ aliasStage[r] = "mapped") =>
            /\ channelData[r] # NoChannelData
            /\ DOMAIN channelData[r].channels = DOMAIN channels[r]
            /\ \A i \in DOMAIN channels[r] :
                  LET pk == channels[r][i].remote_pubkey
                      c == channelData[r].channels[i]
                  IN  IF pk \in FailedPeers(r)
                      THEN /\ c.remote_alias = "Unknown (Error retrieving)"
                           /\ "_error" \in DOMAIN c
                           /\ c._error.type = "alias_retrieval_failed"
                      ELSE /\ pk \in DOMAIN lookedUp[r]
                           /\ c.remote_alias = ResolvedAlias(lookedUp[r][pk])
                           /\ "_error" \notin DOMAIN c
            /\ promise[r].state = "fulfilled"
            /\ raised[r].raisedBy # "formatter" => promise[r].value.type # "error"

\* C4's case: three channels with three distinct peers, one lookup failed and
\* two resolved to the peers' aliases; the call returned the channel list.
C4_Witness ==
    \E r \in DOMAIN pc :
        /\ Done(r)
        /\ aliasStage[r] = "mapped"
        /\ Len(channels[r]) = 3
        /\ Cardinality(DistinctPubkeys(channels[r])) = 3
        /\ Cardinality(FailedPeers(r)) = 1
        /\ \A p \in DOMAIN lookedUp[r] \ FailedPeers(r) :
              ResolvedAlias(lookedUp[r][p]) = "alias-" \o p
        /\ promise[r].value.type = "channel_list"

\* C5: alias resolution never drops or adds channels: whatever the pattern of
\* lookup successes and failures, and also when the whole stage fails, the
\* enriched list is as long as the fetched one.
C5_LengthPreserved ==
    \A r \in DOMAIN pc :
        channelData[r] # NoChannelData =>
            Len(channelData[r].channels) = Len(channels[r])

\* C5's case: three channels, two of them sharing a peer whose lookup failed.
C5_Witness ==
    \E r \in DOMAIN pc :
        /\ Done(r)
        /\ aliasStage[r] = "mapped"
        /\ Len(channels[r]) = 3
        /\ \E i, j \in 1..3 :
              /\ i # j
              /\ channels[r][i].remote_pubkey = channels[r][j].remote_pubkey
              /\ channels[r][i].remote_pubkey \in FailedPeers(r)
        /\ Len(channelData[r].channels) = 3

OneLookupPerDistinctKey(r) ==
    /\ Cardinality(NodeInfoCalls(r)) = Cardinality(DistinctPubkeys(channels[r]))
    /\ \A p \in DistinctPubkeys(channels[r]) : Cardinality(LookupsOf(r, p)) = 1

\* C6 as stated: within one alias resolution over a channel set, the number
\* of alias lookups issued equals the number of distinct remote_pubkey values
\* of the set, with exactly one lookup per distinct key.
C6_AsStated ==
    \A r \in DOMAIN pc :
        aliasStage[r] \in {"started", "mapped", "failed"} => OneLookupPerDistinctKey(r)

\* C6, amended: within one alias resolution that obtains the gateway handle,
\* the number of alias lookups issued equals the number of distinct
\* remote_pubkey values, with exactly one lookup per distinct key, however
\* many channels share a key; a resolution that fails to obtain the handle
\* issues no lookup at all.
C6_LookupsPerDistinctKey ==
    \A r \in DOMAIN pc :
        /\ aliasStage[r] \in {"started", "mapped"} => OneLookupPerDistinctKey(r)
        /\ aliasStage[r] = "failed" => NodeInfoCalls(r) = {}

\* C6's case: three channels sharing two peers were resolved with two lookups.
C6_Witness ==
    \E r \in DOMAIN pc :
        /\ aliasStage[r] = "mapped"
        /\ Len(channels[r]) = 3
        /\ Cardinality(DistinctPubkeys(channels[r])) = 2
        /\ Cardinality(NodeInfoCalls(r)) = 2

\* The pending lookup i of request r settles, with any outcome.
LookupCanSettle(r, i) ==
    \E out \in GetNodeInfoOutcomes(nodeInfoPromises[r][i].pubkey) :
        GetNodeInfoSettles(r, i, out)

\* C7: the alias fan-out is a settle-all gather: the step that starts the
\* fan-out starts the lookup of every distinct peer; while the call waits,
\* every pending lookup can still settle, whatever its siblings did, and a
\* step settles at most one lookup and leaves the others as they are; and the
\* call leaves the wait (maps the channels) only when every lookup has settled.
C7_SettleAllGather ==
    /\ [](\A r \in DOMAIN pc :
            pc[r] = "lookups" =>
                \A i \in DOMAIN nodeInfoPromises[r] :
                    nodeInfoPromises[r][i].state = "pending" => ENABLED LookupCanSettle(r, i))
    /\ [][\A r \in DOMAIN pc :
          /\ (pc[r] # "lookups" /\ pc'[r] = "lookups") =>
                /\ {nodeInfoPromises'[r][i].pubkey : i \in DOMAIN nodeInfoPromises'[r]}
                      = DistinctPubkeys(channels'[r])
                /\ \A i \in DOMAIN nodeInfoPromises'[r] :
                      nodeInfoPromises'[r][i].state = "pending"
          /\ (pc[r] = "lookups" /\ pc'[r] = "lookups") =>
                /\ DOMAIN nodeInfoPromises'[r] = DOMAIN nodeInfoPromises[r]
                /\ Cardinality({i \in DOMAIN nodeInfoPromises[r] :
                        nodeInfoPromises'[r][i] # nodeInfoPromises[r][i]}) <= 1
                /\ \A i \in DOMAIN nodeInfoPromises[r] :
                      nodeInfoPromises[r][i].state = "fulfilled" =>
                          nodeInfoPromises'[r][i] = nodeInfoPromises[r][i]
          /\ (pc[r] = "lookups" /\ pc'[r] # "lookups") =>
                /\ \A i \in DOMAIN nodeInfoPromises[r] :
                      nodeInfoPromises[r][i].state = "fulfilled"
                /\ DOMAIN lookedUp[r] = DistinctPubkeys(channels[r])
                /\ aliasStage'[r] = "mapped"
      ]_vars

\* C7's case: the call is waiting, one lookup has failed, one has succeeded
\* and a third is still pending.
C7_Witness ==
    \E r \in DOMAIN pc :
        /\ pc[r] = "lookups"
        /\ FailedPeers(r) # {}
        /\ \E p \in DOMAIN lookedUp[r] : lookedUp[r][p].ok
        /\ \E i \in DOMAIN nodeInfoPromises[r] : nodeInfoPromises[r][i].state = "pending"

(***************************************************************************)
(* The default case of the switch.                                         *)
(***************************************************************************)
GetChannelsCalls(r) ==
    {i \in DOMAIN gatewayCalls[r] : gatewayCalls[r][i].call = "getChannels"}

UnknownResult == QueryResult("unknown", GuidanceText, EmptyObject)

\* C11 as stated: for every intent that is not one of the three channel
\* views the call returns the 'unknown' result with the guidance text and
\* empty data, after exactly one channel fetch and no formatter call.
C11_AsStated ==
    \A r \in DOMAIN pc :
        (Done(r) /\ intent[r] \notin FormatterIntents) =>
            /\ promise[r] = Fulfilled(UnknownResult)
            /\ Cardinality(GetChannelsCalls(r)) = 1
            /\ formatterCalls[r] = <<>>

\* C11: for every intent that is not one of the three channel views, the
\* call makes the common channel fetch at most once and calls no formatter
\* view; when that fetch succeeds (whatever the alias lookups did) it made
\* exactly one getChannels call and returns the result of type 'unknown'
\* with the guidance text as text and response, empty data and no error
\* field; when that fetch fails it returns the result of type 'error'.
C11_UnknownIntent ==
    \A r \in DOMAIN pc :
        (Done(r) /\ intent[r] \notin FormatterIntents) =>
            /\ formatterCalls[r] = <<>>
            /\ Cardinality(GetChannelsCalls(r)) <= 1
            /\ IF FetchFailed(r)
               THEN promise[r].state = "fulfilled" /\ promise[r].value.type = "error"
               ELSE /\ promise[r] = Fulfilled(UnknownResult)
                    /\ "error" \notin DOMAIN promise[r].value
                    /\ Cardinality(GetChannelsCalls(r)) = 1
                    /\ fetched[r] # NotSettled /\ fetched[r].ok

\* C11's case: an intent the handler does not serve ('node_info'), channels
\* fetched and enriched with one lookup failing, and the 'unknown' result
\* returned.
C11_Witness ==
    \E r \in DOMAIN pc :
        /\ Done(r)
        /\ intent[r] = "node_info"
        /\ aliasStage[r] = "mapped"
        /\ FailedPeers(r) # {}
        /\ Len(channelData[r].channels) >= 2
        /\ promise[r] = Fulfilled(UnknownResult)

(***************************************************************************)
(* A channel fetch that resolves to no list.                               *)
(***************************************************************************)
FetchedNoList(r) ==
    /\ fetched[r] # NotSettled
    /\ fetched[r].ok
    /\ fetched[r].channels.kind # "array"

IsZero(q) == q.num = 0 /\ q.den # 0

\* C12: when getChannels resolves to no data or to something that is no
\* list, the call treats it as the empty channel set and not as an error:
\* no alias lookup is issued, the enriched list is empty, every field of
\* the summary is zero and no most-imbalanced channel is reported; the
\* result is the one of the intent, carrying that data for a channel view.
C12_NonListIsEmpty ==
    \A r \in DOMAIN pc :
        (Done(r) /\ FetchedNoList(r)) =>
            /\ ~FetchFailed(r)
            /\ aliasStage[r] = "skipped"
            /\ NodeInfoCalls(r) = {}
            /\ channelData[r].channels = <<>>
            /\ \A f \in {"totalCapacity", "totalLocalBalance", "totalRemoteBalance",
                          "activeChannels", "inactiveChannels", "healthyChannels",
                          "unhealthyChannels"} : channelData[r].summary[f] = 0
            /\ IsZero(channelData[r].summary.averageCapacity)
            /\ channelData[r].summary.mostImbalancedChannel = 0
            /\ raised[r] = NoError =>
                    /\ promise[r].state = "fulfilled"
                    /\ promise[r].value.type =
                          (IF intent[r] \in FormatterIntents THEN intent[r] ELSE "unknown")
                    /\ "error" \notin DOMAIN promise[r].value
                    /\ intent[r] \in FormatterIntents =>
                            promise[r].value.data = channelData[r]

\* C12's case: getChannels resolved to an object that is no list and the
\* health view was returned over the empty set.
C12_Witness ==
    \E r \in DOMAIN pc :
        /\ Done(r)
        /\ FetchedNoList(r)
        /\ fetched[r].channels.kind = "object"
        /\ intent[r] = "channel_health"
        /\ promise[r].state = "fulfilled"
        /\ promise[r].value.type = "channel_health"
        /\ promise[r].value.data.channels = <<>>

(***************************************************************************)
(* Two calls in flight (checked under SpecConcurrent).                     *)
(***************************************************************************)
\* The enriched list of a call that ran alone, from its own responses: the
\* list it fetched, the handle addNodeAliases got and the lookups' outcomes.
EnrichedAlone(chs, handles, looked) ==
    IF chs = <<>> THEN <<>>
    ELSE IF ~handles[2].ok
    THEN [i \in 1..Len(chs) |->
            WithAliasAndError(chs[i], "Unknown (Error retrieving)",
                              AliasRetrievalFailed(sanitizeError(handles[2].error)))]
    ELSE [i \in 1..Len(chs) |->
            LET out == looked[chs[i].remote_pubkey]
            IN  IF out.ok
                THEN WithAlias(chs[i], AliasOrUnknown(out.nodeInfo))
                ELSE WithAliasAndError(chs[i], "Unknown (Error retrieving)",
                                       AliasRetrievalFailed(sanitizeError(out.error)))]

\* How the promise of a call that ran alone settles (formatter returning).
ResultAlone(type, handles, out, looked) ==
    IF ~handles[1].ok THEN Fulfilled(ErrorResult(sanitizeError(handles[1].error), EmptyObject))
    ELSE IF ~out.ok THEN Fulfilled(ErrorResult(sanitizeError(out.error), EmptyObject))
    ELSE LET enriched == EnrichedAlone(fetchRawChannelData(out.channels), handles, looked)
         IN  Fulfilled(SwitchResult(type,
                 [channels |-> enriched,
                  summary |-> calculateChannelSummary(enriched, healthCriteria)]))

Marked(r) ==
    IF channelData[r] = NoChannelData THEN {}
    ELSE {i \in DOMAIN channelData[r].channels :
              "_error" \in DOMAIN channelData[r].channels[i]}

\* C13: with two calls in flight, under every interleaving of their fetch
\* and lookup steps, the result of each call is the result of a call that
\* ran alone on the same gateway responses; its error map holds its own
\* failed lookups only, a channel of its result is marked only when its own
\* lookup of that peer (or its own alias stage) failed, and a returned
\* result is not changed by the steps of the other call.
C13_Independent ==
    /\ [](\A r \in ConcurrentRequests :
            /\ DOMAIN errorMap[r] = FailedPeers(r)
            /\ Done(r) =>
                  /\ promise[r] = ResultAlone(intent[r], lndHandles[r], fetched[r],
                                              lookedUp[r])
                  /\ \A i \in Marked(r) :
                        \/ aliasStage[r] = "failed"
                        \/ channelData[r].channels[i].remote_pubkey \in FailedPeers(r))
    /\ [][\A r \in ConcurrentRequests :
            Done(r) => promise'[r] = promise[r] /\ channelData'[r] = channelData[r]]_vars

\* C13's case: both calls wait for lookups at the same time; the lookup of
\* peer 02aa failed in the first call and succeeded in the second, and a
\* lookup of each call is still pending.
C13_Witness ==
    /\ DOMAIN pc = ConcurrentRequests
    /\ pc[1] = "lookups" /\ pc[2] = "lookups"
    /\ "02aa" \in FailedPeers(1)
    /\ "02aa" \in DOMAIN lookedUp[2] /\ lookedUp[2]["02aa"].ok
    /\ "02aa" \notin DOMAIN errorMap[2]
    /\ \E i \in DOMAIN nodeInfoPromises[1] : nodeInfoPromises[1][i].state = "pending"
    /\ \E i \in DOMAIN nodeInfoPromises[2] : nodeInfoPromises[2][i].state = "pending"

(***************************************************************************)
(* The alias stage failing as a whole (checked under Spec).                *)
(***************************************************************************)
RawFields == {"remote_pubkey", "capacity", "local_balance", "remote_balance", "active"}

\* C14: when the alias stage fails as a whole (getLnd throws inside
\* addNodeAliases) the call does not fail: no lookup is issued, every
\* fetched channel is returned, in order, with the alias
\* "Unknown (Error retrieving)" and one and the same annotation of type
\* alias_retrieval_failed carrying the sanitized message, and the call
\* returns the non-error result of a channel view (the guidance result for
\* any other intent) unless a formatter throws afterwards.
C14_AliasStageFailure ==
    \A r \in DOMAIN pc :
        (Done(r) /\ aliasStage[r] = "failed") =>
            LET chs == channelData[r].channels
                items == fetched[r].channels.items
                annotation == [type |-> "alias_retrieval_failed",
                               message |-> sanitizeError(lndHandles[r][2].error).message]
            IN  /\ ~lndHandles[r][2].ok
                /\ raised[r].raisedBy \in {"none", "formatter"}
                /\ NodeInfoCalls(r) = {}
                /\ Len(chs) = Len(items) /\ Len(chs) > 0
                /\ \A i \in DOMAIN chs :
                      /\ chs[i].remote_alias = "Unknown (Error retrieving)"
                      /\ "_error" \in DOMAIN chs[i]
                      /\ chs[i]._error = annotation
                      /\ \A f \in RawFields : chs[i][f] = items[i][f]
                /\ promise[r].state = "fulfilled"
                /\ raised[r] = NoError =>
                      /\ "error" \notin DOMAIN promise[r].value
                      /\ IF intent[r] \in FormatterIntents
                         THEN /\ promise[r].value.type = intent[r]
                              /\ promise[r].value.data.channels = chs
                         ELSE promise[r].value = UnknownResult

\* C14's case: getLnd threw inside addNodeAliases with a message that
\* sanitizing changes, over channels of two peers, and the liquidity view
\* was returned with every channel marked.
C14_Witness ==
    \E r \in DOMAIN pc :
        /\ Done(r)
        /\ aliasStage[r] = "failed"
        /\ intent[r] = "channel_liquidity"
        /\ promise[r].state = "fulfilled"
        /\ promise[r].value.type = "channel_liquidity"
        /\ Cardinality(DistinctPubkeys(promise[r].value.data.channels)) >= 2
        /\ \A i \in DOMAIN promise[r].value.data.channels :
              promise[r].value.data.channels[i]._error.message = "ENOENT: open [REDACTED]"

(***************************************************************************)
(* What enrichment leaves alone (checked under Spec).                      *)
(***************************************************************************)
\* C15: enrichment only adds fields: whenever the call produced channel
\* data, its i-th channel has the remote_pubkey, capacity, local_balance,
\* remote_balance and active of the i-th fetched channel, in the same order
\* and number, and differs from it only by the added remote_alias and, for
\* a failed lookup, the _error annotation; a channel view returns exactly
\* these channels, and the fetched channel objects are left as fetched.
C15_EnrichmentOnlyAdds ==
    \A r \in DOMAIN pc :
        (Done(r) /\ channelData[r] # NoChannelData) =>
            LET chs == channelData[r].channels
                items == fetchRawChannelData(fetched[r].channels)
            IN  /\ Len(chs) = Len(items)
                /\ \A i \in DOMAIN chs :
                      /\ RawFields \subseteq DOMAIN chs[i]
                      /\ \A f \in RawFields : chs[i][f] = items[i][f]
                      /\ "remote_alias" \in DOMAIN chs[i]
                      /\ DOMAIN chs[i] \ RawFields \subseteq {"remote_alias", "_error"}
                      /\ DOMAIN items[i] = RawFields
                /\ channels[r] = items
                /\ (promise[r].state = "fulfilled"
                        /\ promise[r].value.type \in FormatterIntents) =>
                      promise[r].value.data.channels = chs

\* C15's case: three fetched channels, two of them with the same peer, one
\* lookup failed and one succeeded, and the list view returned: one channel
\* gained remote_alias only, another remote_alias and _error.
C15_Witness ==
    \E r \in DOMAIN pc :
        /\ Done(r)
        /\ aliasStage[r] = "mapped"
        /\ promise[r].state = "fulfilled"
        /\ promise[r].value.type = "channel_list"
        /\ Len(promise[r].value.data.channels) = 3
        /\ \E i, j \in DOMAIN channels[r] :
              i # j /\ channels[r][i].remote_pubkey = channels[r][j].remote_pubkey
        /\ \E i \in DOMAIN promise[r].value.data.channels :
              DOMAIN promise[r].value.data.channels[i] = RawFields \cup {"remote_alias"}
        /\ \E i \in DOMAIN promise[r].value.data.channels :
              DOMAIN promise[r].value.data.channels[i]
                  = RawFields \cup {"remote_alias", "_error"}

====
